---- MODULE Spec2Model ----
(***************************************************************************)
(* Model of the multilinear-extension arithmetic of univarization:         *)
(*   src/univarization/src/mle.rs      EqPolynomial (bit-reversed table),  *)
(*                                     MLEPolynomial (new, fold, evaluate) *)
(*   src/univarization/src/mle/mod.rs  EqPolynomial (little-endian table), *)
(*                                     coefficient <-> evaluation transforms*)
(* A Vec<Scalar> is a function over 0..len-1, so that every index of the   *)
(* model is the index the source uses.  Scalar is the ring Z_Modulus.      *)
(***************************************************************************)
EXTENDS Integers, Sequences, FiniteSets, TLC

\* ---------------------------------------------------------------- bounds
\* Scalar is modelled as the commutative ring of integers modulo Modulus.
Modulus == 3
\* longest slice handed to MLEPolynomial::new
MaxLen == 4
\* most fold_into_half calls made on one MLEPolynomial
MaxFolds == 2
\* longest point handed to MLEPolynomial::evaluate
MaxPoint == 2
\* longest x_vec handed to EqPolynomial::new
MaxEqVars == 3
\* largest num_var handed to the coefficient/evaluation transforms
MaxTrVars == 2

\* ------------------------------------------------------- Scalar (external)
Scalar == 0 .. (Modulus - 1)
ScalarZero == 0
ScalarOne == 1 % Modulus
ScalarAdd(a, b) == (a + b) % Modulus
ScalarSub(a, b) == (a + Modulus - b) % Modulus
ScalarMul(a, b) == (a * b) % Modulus

\* ------------------------------------------------------------ Vec helpers
VecLen(v) == Cardinality(DOMAIN v)
EmptyVec == [i \in {} |-> ScalarZero]
\* vec![x; n]
VecRepeat(x, n) == [i \in 0 .. (n - 1) |-> x]
\* a.extend(b)
VecExtend(a, b) ==
    [i \in 0 .. (VecLen(a) + VecLen(b) - 1) |->
        IF i < VecLen(a) THEN a[i] ELSE b[i - VecLen(a)]]
\* v.push(x)
VecPush(v, x) == [i \in 0 .. VecLen(v) |-> IF i < VecLen(v) THEN v[i] ELSE x]
\* every Vec<Scalar> of length n
VecsOfLen(n) == [0 .. (n - 1) -> Scalar]
VecsUpTo(n) == UNION {VecsOfLen(k) : k \in 0 .. n}

\* ------------------------------------------------- usize helpers (external)
RECURSIVE pow_2(_)
pow_2(n) == IF n = 0 THEN 1 ELSE 2 * pow_2(n - 1)

RECURSIVE log_2(_)
log_2(n) == IF n <= 1 THEN 0 ELSE 1 + log_2(n \div 2)

\* usize::next_power_of_two: smallest power of two >= n (1 for n = 0)
RECURSIVE NextPowFrom(_, _)
NextPowFrom(p, n) == IF p >= n THEN p ELSE NextPowFrom(2 * p, n)
next_power_of_two(n) == NextPowFrom(1, n)

\* usize::is_power_of_two
is_power_of_two(n) == n >= 1 /\ pow_2(log_2(n)) = n

\* usize::MAX, the value 0 - 1 wraps to when overflow checks are off; it
\* stands for 2^64 - 1, which is beyond the integers TLC computes with.
UsizeMax == 2147483647

\* bit j of i
BitAt(i, j) == (i \div pow_2(j)) % 2

\* ============================================================ mle.rs
\* ------------------------------------------- EqPolynomial (mle.rs)
\* inner loop of evals_over_hypercube: j = s-1, s-3, ..., 1
RECURSIVE mle_evals_inner(_, _, _)
mle_evals_inner(e, x, j) ==
    IF j < 1 THEN e
    ELSE LET v == e[j \div 2]
         IN  mle_evals_inner(
                 [e EXCEPT ![j] = ScalarMul(v, x),
                           ![j - 1] = ScalarMul(v, ScalarSub(ScalarOne, x))],
                 x, j - 2)

\* outer loop of evals_over_hypercube: i = 0 .. log_size-1, s doubled first
RECURSIVE mle_evals_outer(_, _, _, _)
mle_evals_outer(e, x_vec, i, s) ==
    IF i >= VecLen(x_vec) THEN e
    ELSE mle_evals_outer(mle_evals_inner(e, x_vec[i], 2 * s - 1),
                         x_vec, i + 1, 2 * s)

\* EqPolynomial::evals_over_hypercube of mle.rs
mle_evals_over_hypercube(x_vec) ==
    mle_evals_outer(VecRepeat(ScalarOne, pow_2(VecLen(x_vec))), x_vec, 0, 1)

\* ------------------------------------------------- MLEPolynomial (mle.rs)
\* MLEPolynomial::new with num_var taken from the unpadded length
MLEPolynomial_new_mut(vs) ==
    LET vs_len == VecLen(vs)
        full_len == next_power_of_two(vs_len)
        padded_len == full_len - vs_len
    IN  [num_var |-> log_2(vs_len),
         evals |-> VecExtend(vs, VecRepeat(ScalarZero, padded_len))]

\* MLEPolynomial::new
MLEPolynomial_new(vs) ==
    LET vs_len == VecLen(vs)
        full_len == next_power_of_two(vs_len)
        padded_len == full_len - vs_len
    IN  [num_var |-> log_2(full_len),
         evals |-> VecExtend(vs, VecRepeat(ScalarZero, padded_len))]

\* the loop of fold_into_half: i = 0 .. half-1, in place
RECURSIVE fold_loop(_, _, _, _)
fold_loop(e, rho, half, i) ==
    IF i >= half THEN e
    ELSE fold_loop(
             [e EXCEPT ![i] =
                 ScalarAdd(ScalarMul(ScalarSub(ScalarOne, rho), e[i]),
                           ScalarMul(rho, e[i + half]))],
             rho, half, i + 1)

\* the table fold_into_half leaves behind: the loop writes slots 0..half-1
\* and the vector keeps its length
fold_evals(e, rho) == fold_loop(e, rho, VecLen(e) \div 2, 0)

\* (0..n).map(|i| a[i] * b[i]).sum()
RECURSIVE inner_product(_, _, _)
inner_product(a, b, n) ==
    IF n = 0 THEN ScalarZero
    ELSE ScalarAdd(inner_product(a, b, n - 1),
                   ScalarMul(a[n - 1], b[n - 1]))

\* MLEPolynomial::evaluate: both assert_eq! pass or the call panics; they
\* compare rs.len() with num_var and chi_vec.len() with evals.len()
evaluate_ok(nv, e, rs_len) ==
    /\ rs_len = nv
    /\ pow_2(rs_len) = VecLen(e)

evaluate_value(e, rs) ==
    inner_product(mle_evals_over_hypercube(rs), e, VecLen(e))

\* ======================================================== mle/mod.rs
\* bits_LE(i, n) of crate::bits: the n low bits of i, least significant first
bits_LE(i, n) == [j \in 0 .. (n - 1) |-> BitAt(i, j) = 1]

\* scalar_from_bits_LE(i, n) of crate: the same bits as field elements
scalar_from_bits_LE(i, n) ==
    [j \in 0 .. (n - 1) |-> IF BitAt(i, j) = 1 THEN ScalarOne ELSE ScalarZero]

\* the product of EqPolynomial::eval with the two branches exchanged
RECURSIVE eval_product_mut(_, _, _)
eval_product_mut(x_log_vec, i_bits, n) ==
    IF n = 0 THEN ScalarOne
    ELSE ScalarMul(eval_product_mut(x_log_vec, i_bits, n - 1),
                   IF i_bits[n - 1] THEN ScalarSub(ScalarOne, x_log_vec[n - 1])
                   ELSE x_log_vec[n - 1])

\* (0..n).map(f).product() of EqPolynomial::eval
RECURSIVE eval_product(_, _, _)
eval_product(x_log_vec, i_bits, n) ==
    IF n = 0 THEN ScalarOne
    ELSE ScalarMul(eval_product(x_log_vec, i_bits, n - 1),
                   IF i_bits[n - 1] THEN x_log_vec[n - 1]
                   ELSE ScalarSub(ScalarOne, x_log_vec[n - 1]))

\* EqPolynomial::eval
eval(x_log_vec, i) ==
    eval_product(x_log_vec, bits_LE(i, VecLen(x_log_vec)), VecLen(x_log_vec))

\* the inner loop of evals_over_hypercube without the subtraction that
\* turns evals[j] into evals[j] * (1 - x)
RECURSIVE evals_inner_mut(_, _, _, _)
evals_inner_mut(e, x, half, j) ==
    IF j >= half THEN e
    ELSE evals_inner_mut([e EXCEPT ![j + half] = ScalarMul(e[j], x)],
                         x, half, j + 1)

\* inner loop of evals_over_hypercube: j = 0 .. half-1
RECURSIVE evals_inner(_, _, _, _)
evals_inner(e, x, half, j) ==
    IF j >= half THEN e
    ELSE LET e1 == [e EXCEPT ![j + half] = ScalarMul(e[j], x)]
             e2 == [e1 EXCEPT ![j] = ScalarSub(e1[j], e1[j + half])]
         IN  evals_inner(e2, x, half, j + 1)

\* the outer loop of evals_over_hypercube without half *= 2
RECURSIVE evals_outer_mut(_, _, _, _)
evals_outer_mut(e, x_vec, i, half) ==
    IF i >= VecLen(x_vec) THEN e
    ELSE evals_outer_mut(evals_inner(e, x_vec[i], half, 0), x_vec, i + 1, half)

\* outer loop of evals_over_hypercube: i = 0 .. log_size-1, half doubled after
RECURSIVE evals_outer(_, _, _, _)
evals_outer(e, x_vec, i, half) ==
    IF i >= VecLen(x_vec) THEN e
    ELSE evals_outer(evals_inner(e, x_vec[i], half, 0), x_vec, i + 1, 2 * half)

\* EqPolynomial::evals_over_hypercube
evals_over_hypercube(x_vec) ==
    evals_outer(VecRepeat(ScalarOne, pow_2(VecLen(x_vec))), x_vec, 0, 1)

\* the j loop of evals_over_hypercube_slow: prod_acc *= eq_j
RECURSIVE slow_prod(_, _, _, _)
slow_prod(prod_acc, x_vec, i_bin, j) ==
    IF j >= VecLen(x_vec) THEN prod_acc
    ELSE LET b == i_bin[j]
             x == x_vec[j]
             eq_j == ScalarAdd(ScalarMul(ScalarSub(ScalarOne, x),
                                         ScalarSub(ScalarOne, b)),
                               ScalarMul(x, b))
         IN  slow_prod(ScalarMul(prod_acc, eq_j), x_vec, i_bin, j + 1)

\* the i loop of evals_over_hypercube_slow
RECURSIVE slow_loop(_, _, _)
slow_loop(e, x_vec, i) ==
    IF i >= VecLen(e) THEN e
    ELSE slow_loop(
             [e EXCEPT ![i] =
                 slow_prod(ScalarOne, x_vec,
                           scalar_from_bits_LE(i, VecLen(x_vec)), 0)],
             x_vec, i + 1)

\* EqPolynomial::evals_over_hypercube_slow
evals_over_hypercube_slow(x_vec) ==
    slow_loop(VecRepeat(ScalarZero, pow_2(VecLen(x_vec))), x_vec, 0)

\* ---------------------------------------- compute_coeffs_from_evals
\* the k loop of compute_coeffs_from_evals with += in place of -=
RECURSIVE coeffs_k_mut(_, _, _, _)
coeffs_k_mut(c, j, half, k) ==
    IF k >= half THEN c
    ELSE LET a == c[j * half + k]
         IN  coeffs_k_mut([c EXCEPT ![(j + 1) * half + k] = ScalarAdd(@, a)],
                          j, half, k + 1)

\* for k in 0..half
RECURSIVE coeffs_k(_, _, _, _)
coeffs_k(c, j, half, k) ==
    IF k >= half THEN c
    ELSE LET a == c[j * half + k]
         IN  coeffs_k([c EXCEPT ![(j + 1) * half + k] = ScalarSub(@, a)],
                      j, half, k + 1)

\* for j in (0..b).step_by(2)
RECURSIVE coeffs_j(_, _, _, _)
coeffs_j(c, b, half, j) ==
    IF j >= b THEN c
    ELSE coeffs_j(coeffs_k(c, j, half, 0), b, half, j + 2)

\* for _i in 0..num_var, half halved after each pass
RECURSIVE coeffs_pass(_, _, _, _)
coeffs_pass(c, nv, half, i) ==
    IF i >= nv THEN c
    ELSE coeffs_pass(coeffs_j(c, VecLen(c) \div half, half, 0),
                     nv, half \div 2, i + 1)

\* compute_coeffs_from_evals, for a length that passes the assert!
compute_coeffs_from_evals(e) ==
    coeffs_pass(e, log_2(VecLen(e)), VecLen(e) \div 2, 0)

\* ---------------------------------------- compute_evals_from_coeffs
\* for k in 0..s/2
RECURSIVE evals_k(_, _, _, _)
evals_k(e, j, s, k) ==
    IF k >= s \div 2 THEN e
    ELSE LET a == e[j * s + k]
         IN  evals_k([e EXCEPT ![j * s + k + (s \div 2)] = ScalarAdd(@, a)],
                     j, s, k + 1)

\* the j loop of compute_evals_from_coeffs stopping one block early
RECURSIVE evals_j_mut(_, _, _)
evals_j_mut(e, half, j) ==
    IF j >= half - 1 THEN e
    ELSE evals_j_mut(evals_k(e, j, VecLen(e) \div half, 0), half, j + 1)

\* for j in 0..half
RECURSIVE evals_j(_, _, _)
evals_j(e, half, j) ==
    IF j >= half THEN e
    ELSE evals_j(evals_k(e, j, VecLen(e) \div half, 0), half, j + 1)

\* for _i in 0..num_var, half halved after each pass
RECURSIVE evals_pass(_, _, _, _)
evals_pass(e, nv, half, i) ==
    IF i >= nv THEN e
    ELSE evals_pass(evals_j(e, half, 0), nv, half \div 2, i + 1)

\* compute_evals_from_coeffs, for a length that passes the assert!
compute_evals_from_coeffs(nv, coeffs) ==
    LET len == pow_2(nv)
        padded == VecExtend(coeffs, VecRepeat(ScalarZero, len - VecLen(coeffs)))
    IN  evals_pass(padded, nv, len \div 2, 0)

\* --------------------------------------------------------------- state
VARIABLES
    pc,        \* "init" before new, "live" while the object is usable,
               \* "panicked" after a panic
    vs,        \* the slice handed to MLEPolynomial::new
    num_var,   \* MLEPolynomial.num_var
    evals,     \* MLEPolynomial.evals
    rhos,      \* the challenges handed to fold_into_half so far, in order
    op,        \* the last call: "none", "new", "fold", "evaluate"
    outcome,   \* how the last call ended: "ok" or "panic"
    pre,       \* num_var and evals as they were before the last fold
    point,     \* the argument of the last call, if it was an evaluate that
               \* returned (empty otherwise)
    ret,       \* the value the last call returned, if it was an evaluate
               \* (zero otherwise)
    \* an EqPolynomial of mle/mod.rs and the results of the calls made on it
    eq_pc,     \* "init" before EqPolynomial::new, "live" after
    x_vec,     \* EqPolynomial.x_vec
    eq_called, \* the methods called so far
    eq_fast,   \* what evals_over_hypercube returned
    eq_slow,   \* what evals_over_hypercube_slow returned
    eq_i,      \* the argument of the last eval
    eq_val,    \* what the last eval returned
    \* calls of the coefficient/evaluation transforms
    tr_called, \* the transform calls made so far
    tr_T,      \* the table handed to compute_coeffs_from_evals
    tr_coeffs, \* what compute_coeffs_from_evals returned
    tr_back,   \* compute_evals_from_coeffs(n, tr_coeffs)
    tr_n,      \* num_var of the direct compute_evals_from_coeffs call
    tr_in,     \* coeffs of the direct compute_evals_from_coeffs call
    tr_out,    \* what the direct call returned
    tr_outcome \* "ok", or "panic" once an assert! of a transform failed

mleVars == <<pc, vs, num_var, evals, rhos, op, outcome, pre, point, ret>>
eqVars == <<eq_pc, x_vec, eq_called, eq_fast, eq_slow, eq_i, eq_val>>
trVars == <<tr_called, tr_T, tr_coeffs, tr_back, tr_n, tr_in, tr_out,
            tr_outcome>>
vars == <<mleVars, eqVars, trVars>>

NoPre == [num_var |-> 0, evals |-> EmptyVec]

MleIdle ==
    /\ pc = "init"
    /\ vs = EmptyVec
    /\ num_var = 0
    /\ evals = EmptyVec
    /\ rhos = EmptyVec
    /\ op = "none"
    /\ outcome = "ok"
    /\ pre = NoPre
    /\ point = EmptyVec
    /\ ret = ScalarZero

EqIdle ==
    /\ eq_pc = "init"
    /\ x_vec = EmptyVec
    /\ eq_called = {}
    /\ eq_fast = EmptyVec
    /\ eq_slow = EmptyVec
    /\ eq_i = 0
    /\ eq_val = ScalarZero

TrIdle ==
    /\ tr_called = {}
    /\ tr_T = EmptyVec
    /\ tr_coeffs = EmptyVec
    /\ tr_back = EmptyVec
    /\ tr_n = 0
    /\ tr_in = EmptyVec
    /\ tr_out = EmptyVec
    /\ tr_outcome = "ok"

\* ------------------------------------------- MLEPolynomial, call by call
Init == MleIdle /\ EqIdle /\ TrIdle

\* let mle = MLEPolynomial::new(&values)
New ==
    /\ pc = "init"
    /\ \E values \in VecsUpTo(MaxLen) :
        LET m == MLEPolynomial_new(values)
        IN  /\ vs' = values
            /\ num_var' = m.num_var
            /\ evals' = m.evals
    /\ pc' = "live"
    /\ op' = "new"
    /\ outcome' = "ok"
    /\ UNCHANGED <<rhos, pre, point, ret, eqVars, trVars>>

\* mle.fold_into_half(&rho) with a variable left: the loop, then num_var -= 1
FoldIntoHalf ==
    /\ pc = "live"
    /\ VecLen(rhos) < MaxFolds
    /\ num_var > 0
    /\ \E rho \in Scalar :
        /\ evals' = fold_evals(evals, rho)
        /\ rhos' = VecPush(rhos, rho)
    /\ num_var' = num_var - 1
    /\ pre' = [num_var |-> num_var, evals |-> evals]
    /\ op' = "fold"
    /\ outcome' = "ok"
    /\ point' = EmptyVec
    /\ ret' = ScalarZero
    /\ UNCHANGED <<pc, vs, eqVars, trVars>>

\* mle.fold_into_half(&rho) with num_var == 0: the loop runs as before, then
\* num_var -= 1 underflows a usize: with overflow checks (debug build) the
\* subtraction panics and num_var keeps its value, without them (release
\* build) num_var wraps around and the call returns
FoldIntoHalfExhausted ==
    /\ pc = "live"
    /\ VecLen(rhos) < MaxFolds
    /\ num_var = 0
    /\ \E rho \in Scalar :
        /\ evals' = fold_evals(evals, rho)
        /\ rhos' = VecPush(rhos, rho)
    /\ \/ /\ outcome' = "panic"
          /\ pc' = "panicked"
          /\ num_var' = num_var
       \/ /\ outcome' = "ok"
          /\ pc' = pc
          /\ num_var' = UsizeMax
    /\ pre' = [num_var |-> num_var, evals |-> evals]
    /\ op' = "fold"
    /\ point' = EmptyVec
    /\ ret' = ScalarZero
    /\ UNCHANGED <<vs, eqVars, trVars>>

\* mle.evaluate(&rs).  evaluate takes &self and changes nothing, so a second
\* evaluate in a row reaches no state that the first does not reach: the
\* action is taken from the states whose last call is not an evaluate.
Evaluate ==
    /\ pc = "live"
    /\ op # "evaluate"
    /\ \E rs_len \in 0 .. MaxPoint :
        IF evaluate_ok(num_var, evals, rs_len)
        THEN /\ \E rs \in VecsOfLen(rs_len) :
                /\ point' = rs
                /\ ret' = evaluate_value(evals, rs)
             /\ outcome' = "ok"
             /\ pc' = pc
        ELSE /\ point' = EmptyVec
             /\ ret' = ScalarZero
             /\ outcome' = "panic"
             /\ pc' = "panicked"
    /\ op' = "evaluate"
    /\ UNCHANGED <<vs, num_var, evals, rhos, pre, eqVars, trVars>>

Next ==
    \/ New
    \/ FoldIntoHalf
    \/ FoldIntoHalfExhausted
    \/ Evaluate

Spec == Init /\ [][Next]_vars

\* ------------------------------- EqPolynomial of mle/mod.rs, call by call
\* let eq = EqPolynomial::new(&x)
EqNew ==
    /\ eq_pc = "init"
    /\ x_vec' \in VecsUpTo(MaxEqVars)
    /\ eq_pc' = "live"
    /\ UNCHANGED <<eq_called, eq_fast, eq_slow, eq_i, eq_val, mleVars, trVars>>

\* eq.evals_over_hypercube()
EvalsOverHypercube ==
    /\ eq_pc = "live"
    /\ eq_fast' = evals_over_hypercube(x_vec)
    /\ eq_called' = eq_called \cup {"evals_over_hypercube"}
    /\ UNCHANGED <<eq_pc, x_vec, eq_slow, eq_i, eq_val, mleVars, trVars>>

\* eq.evals_over_hypercube_slow()
EvalsOverHypercubeSlow ==
    /\ eq_pc = "live"
    /\ eq_slow' = evals_over_hypercube_slow(x_vec)
    /\ eq_called' = eq_called \cup {"evals_over_hypercube_slow"}
    /\ UNCHANGED <<eq_pc, x_vec, eq_fast, eq_i, eq_val, mleVars, trVars>>

\* eq.eval(i), for an i within the hypercube
Eval ==
    /\ eq_pc = "live"
    /\ \E i \in 0 .. (pow_2(VecLen(x_vec)) - 1) :
        /\ eq_i' = i
        /\ eq_val' = eval(x_vec, i)
    /\ eq_called' = eq_called \cup {"eval"}
    /\ UNCHANGED <<eq_pc, x_vec, eq_fast, eq_slow, mleVars, trVars>>

EqNext ==
    \/ EqNew
    \/ EvalsOverHypercube
    \/ EvalsOverHypercubeSlow
    \/ Eval

SpecEq == Init /\ [][EqNext]_vars

\* ------------------------------------------ the transforms, call by call
\* let c = compute_coeffs_from_evals(&T)
ComputeCoeffsFromEvals ==
    /\ tr_outcome = "ok"
    /\ tr_called = {}
    /\ \E T \in VecsUpTo(pow_2(MaxTrVars)) :
        /\ tr_T' = T
        /\ IF is_power_of_two(VecLen(T))
           THEN /\ tr_coeffs' = compute_coeffs_from_evals(T)
                /\ tr_outcome' = "ok"
           ELSE /\ tr_coeffs' = tr_coeffs
                /\ tr_outcome' = "panic"
    /\ tr_called' = tr_called \cup {"compute_coeffs_from_evals"}
    /\ UNCHANGED <<tr_back, tr_n, tr_in, tr_out, mleVars, eqVars>>

\* compute_evals_from_coeffs(log_2(T.len()), &c) on the c computed from T
EvalsFromComputedCoeffs ==
    /\ tr_outcome = "ok"
    /\ "compute_coeffs_from_evals" \in tr_called
    /\ tr_back' = compute_evals_from_coeffs(log_2(VecLen(tr_T)), tr_coeffs)
    /\ tr_called' = tr_called \cup {"round_trip"}
    /\ UNCHANGED <<tr_T, tr_coeffs, tr_n, tr_in, tr_out, tr_outcome,
                   mleVars, eqVars>>

\* compute_evals_from_coeffs(n, &coeffs) on coefficients of the caller, no
\* more than 2^n of them (the assert! of the function)
ComputeEvalsFromCoeffs ==
    /\ tr_outcome = "ok"
    /\ tr_called = {}
    /\ \E n \in 0 .. MaxTrVars :
        \E coeffs \in VecsUpTo(pow_2(n)) :
            /\ tr_n' = n
            /\ tr_in' = coeffs
            /\ tr_out' = compute_evals_from_coeffs(n, coeffs)
    /\ tr_outcome' = "ok"
    /\ tr_called' = tr_called \cup {"compute_evals_from_coeffs"}
    /\ UNCHANGED <<tr_T, tr_coeffs, tr_back, mleVars, eqVars>>

TrNext ==
    \/ ComputeCoeffsFromEvals
    \/ EvalsFromComputedCoeffs
    \/ ComputeEvalsFromCoeffs

SpecTr == Init /\ [][TrNext]_vars

\* ================================================================ claims
\* ------------------------------------------------ what the claims speak of
\* num_var of the freshly built polynomial
InitialNumVar == MLEPolynomial_new(vs).num_var

\* every fold so far was made while num_var > 0
FoldsInContract == VecLen(rhos) <= InitialNumVar

\* the slice handed to new was a full table of length 2^n
FullTable == VecLen(vs) = pow_2(InitialNumVar)

IsPowerOfTwo(p) == \E k \in 0 .. p : pow_2(k) = p

\* the smallest power of two >= max(L, 1)
PaddedLen(L) ==
    LET m == IF L >= 1 THEN L ELSE 1
    IN  CHOOSE p \in 1 .. (2 * m) :
            /\ IsPowerOfTwo(p)
            /\ p >= m
            /\ \A q \in 1 .. (p - 1) : IsPowerOfTwo(q) => q < m

\* the hypercube vertex i as a point: coordinate j is bit j of i
VertexPoint(i, n) ==
    [j \in 0 .. (n - 1) |-> IF BitAt(i, j) = 1 THEN ScalarOne ELSE ScalarZero]

\* a[0] + ... + a[n-1]
RECURSIVE VecSum(_, _)
VecSum(a, n) == IF n = 0 THEN ScalarZero ELSE ScalarAdd(VecSum(a, n - 1), a[n - 1])

\* the set bits of j are among the set bits of i (j AND i = j)
RECURSIVE BitSubset(_, _)
BitSubset(j, i) ==
    IF j = 0 THEN TRUE
    ELSE (j % 2 <= i % 2) /\ BitSubset(j \div 2, i \div 2)

\* the sum of c[j] over the j < m, j < len(c), whose bits are among those of i
RECURSIVE SubsetSum(_, _, _)
SubsetSum(c, i, m) ==
    IF m = 0 THEN ScalarZero
    ELSE ScalarAdd(SubsetSum(c, i, m - 1),
                   IF (m - 1) < VecLen(c) /\ BitSubset(m - 1, i)
                   THEN c[m - 1] ELSE ScalarZero)

\* ----------------------------------------------------------------- C1
\* C1: after new(T) on a table of length 2^n and n folds with r_0..r_{n-1},
\* slot 0 holds the value new(T).evaluate([r_0..r_{n-1}]) returns.
C1_FoldEqualsEvaluate ==
    (pc = "live" /\ FullTable /\ VecLen(rhos) = InitialNumVar)
        => evals[0] = evaluate_value(MLEPolynomial_new(vs).evals, rhos)

\* ----------------------------------------------------------------- C2
\* C2: after new and any number of folds made while num_var > 0, the table
\* has exactly 2^num_var slots.
C2_LenIsPow2 ==
    (pc = "live" /\ FoldsInContract) => VecLen(evals) = pow_2(num_var)

\* ----------------------------------------------------------------- C4
\* C4: evaluating a fresh polynomial over a table T of length 2^n at the
\* point whose coordinate j is bit j of i returns T[i].
C4_SlotIsVertexValue ==
    (op = "evaluate" /\ outcome = "ok" /\ VecLen(rhos) = 0 /\ FullTable)
        => \A i \in 0 .. (VecLen(vs) - 1) :
               point = VertexPoint(i, num_var) => ret = vs[i]

\* ----------------------------------------------------------------- C8
\* C8: new(vs) yields a table of the smallest power-of-two length P >=
\* max(len(vs), 1) with num_var = log2(P), the input in front and zeros
\* behind it; an input of power-of-two length is kept unchanged.
C8_NewPads ==
    op = "new" =>
        LET L == VecLen(vs)
            P == PaddedLen(L)
        IN  /\ VecLen(evals) = P
            /\ pow_2(num_var) = P
            /\ \A i \in 0 .. (L - 1) : evals[i] = vs[i]
            /\ \A i \in L .. (P - 1) : evals[i] = ScalarZero
            /\ (IsPowerOfTwo(L) => evals = vs)

\* new was handed three values, the last of them nonzero, and padded them
C8_Witness ==
    /\ op = "new"
    /\ VecLen(vs) = 3
    /\ vs[2] # ScalarZero
    /\ VecLen(evals) = 4
    /\ num_var = 2

\* ----------------------------------------------------------------- C9
\* C9: fold_into_half called with num_var == 0 ends in an error and leaves
\* evals and num_var as they were.
C9_ExhaustedFoldNoChange ==
    (op = "fold" /\ pre.num_var = 0)
        => /\ outcome = "panic"
           /\ evals = pre.evals
           /\ num_var = pre.num_var

\* ----------------------------------------------------------------- C5
\* C5: evals_over_hypercube returns 2^n values, the same values in the same
\* order as evals_over_hypercube_slow.
C5_FastEqualsSlow ==
    ({"evals_over_hypercube", "evals_over_hypercube_slow"} \subseteq eq_called)
        => /\ VecLen(eq_fast) = pow_2(VecLen(x_vec))
           /\ eq_fast = eq_slow

\* both tables were computed for three coordinates that are not all bits
C5_Witness ==
    /\ {"evals_over_hypercube", "evals_over_hypercube_slow"} \subseteq eq_called
    /\ VecLen(x_vec) = 3
    /\ x_vec[0] = 2
    /\ x_vec[2] = 1

\* ----------------------------------------------------------------- C6
\* C6: eval(i) equals slot i of the table evals_over_hypercube returns.
C6_EvalMatchesTable ==
    ({"eval", "evals_over_hypercube"} \subseteq eq_called)
        => eq_val = eq_fast[eq_i]

\* eval was called on a vertex whose bits read differently backwards
C6_Witness ==
    /\ {"eval", "evals_over_hypercube"} \subseteq eq_called
    /\ VecLen(x_vec) = 3
    /\ eq_i = 3
    /\ x_vec[0] # x_vec[2]
    /\ eq_val # ScalarZero

\* ----------------------------------------------------------------- C7
\* C7: the entries of the table evals_over_hypercube returns sum to one.
C7_PartitionOfUnity ==
    ("evals_over_hypercube" \in eq_called)
        => VecSum(eq_fast, VecLen(eq_fast)) = ScalarOne

\* the table was computed for three coordinates, none of them a bit
C7_Witness ==
    /\ "evals_over_hypercube" \in eq_called
    /\ VecLen(x_vec) = 3
    /\ \A j \in 0 .. 2 : x_vec[j] = 2

\* ----------------------------------------------------------------- C3
\* C3: compute_evals_from_coeffs(n, compute_coeffs_from_evals(T)) = T for a
\* table T of length 2^n; for n = 0 each transform returns its input.
C3_RoundTrip ==
    /\ ("round_trip" \in tr_called) => tr_back = tr_T
    /\ ("compute_coeffs_from_evals" \in tr_called /\ tr_outcome = "ok"
            /\ VecLen(tr_T) = 1) => tr_coeffs = tr_T
    /\ ("round_trip" \in tr_called /\ VecLen(tr_T) = 1) => tr_back = tr_coeffs

\* a table of four values went through both transforms, and its
\* coefficients are not its values
C3_Witness ==
    /\ "round_trip" \in tr_called
    /\ VecLen(tr_T) = 4
    /\ tr_coeffs # tr_T
    /\ tr_coeffs[3] # ScalarZero

\* ---------------------------------------------------------------- C10
\* C10: compute_evals_from_coeffs(n, coeffs) with len(coeffs) <= 2^n returns
\* 2^n values, slot i the sum of the coeffs[j] whose index bits are among
\* the bits of i (coeffs read as zero beyond its length).
C10_SubsetSums ==
    ("compute_evals_from_coeffs" \in tr_called /\ tr_outcome = "ok")
        => /\ VecLen(tr_out) = pow_2(tr_n)
           /\ \A i \in 0 .. (pow_2(tr_n) - 1) :
                  tr_out[i] = SubsetSum(tr_in, i, pow_2(tr_n))

\* three coefficients were handed in for two variables
C10_Witness ==
    /\ "compute_evals_from_coeffs" \in tr_called
    /\ tr_outcome = "ok"
    /\ tr_n = 2
    /\ VecLen(tr_in) = 3
    /\ tr_in[1] # ScalarZero
    /\ tr_in[2] # ScalarZero

====
